---- MODULE Spec2Model ----
(***************************************************************************)
(* Appointment scheduler of backend/index.js: the handlers                 *)
(*   POST   /api/appointments/create        (CreateAppointment)            *)
(*   PATCH  /api/appointments/:id/update    (UpdateStatusOrReport)         *)
(*   DELETE /api/appointments/:id           (DeleteAppointment)            *)
(* running against the Appointment collection.  Every handler is an async  *)
(* function: the code between two awaits runs without interruption, and    *)
(* each awaited collection call is one atomic operation of the store.  A   *)
(* model step is therefore "one store call plus the handler code that      *)
(* follows it up to the next await".  An awaited call may reject (the      *)
(* store is unreachable); the handler's catch block then answers 500.      *)
(***************************************************************************)
EXTENDS Integers, FiniteSets, Sequences, TLC

(* ----------------------------- bounds ---------------------------------- *)
MaxAppts == 2          \* appointments ever inserted (ids 1..MaxAppts)
MaxOps == 4            \* requests ever received
NumSlots == 2          \* requests that may be in flight together
MaxDayAppts == 3       \* appointments ever inserted in the booking-day runs
MaxDayOps == 5         \* create/update/delete requests in the booking-day runs

(* --------------------------- input domains ----------------------------- *)
Undefined == "<undefined>"      \* a property absent from the request
Empty == ""                     \* a property present but empty
NoDate == 0                     \* appointmentDate absent or empty (falsy)
DayLen == 2                     \* instants per UTC day in the model's clock
Dates == {2, 3, 4}              \* 2 and 3 lie in one UTC day, 4 in the next
DoctorCodes == {"D1", "D2"}
Statuses == {"Pending", "Confirmed", "Cancelled", "Completed"}
DefaultStatus == "Pending"      \* schema default of Appointment.status
Reports == {"R1"}
NullId == 0                     \* "no document" result of a by-id/findOne call

Slots == 1..NumSlots
Ids == 1..MaxAppts

(* JavaScript truthiness of a string-valued request property *)
Falsy(x) == x = Undefined \/ x = Empty

(* request bodies of POST /api/appointments/create: the complete ones, the
   ones with exactly one mandatory property absent or empty, and the empty
   body *)
Bookings == {<<"D1", 2>>, <<"D1", 3>>, <<"D1", 4>>, <<"D2", 2>>}

ValidBodies ==
    {[employeeCode |-> "E1",
      patientName |-> "John",
      patientAge |-> "40",
      patientGender |-> "M",
      patientRelation |-> "Self",
      patientPhone |-> "900",
      patientAddress |-> "Dhanbad",
      appointmentDate |-> k[2],
      appointmentTime |-> "10:00",
      doctorCode |-> k[1],
      notes |-> Undefined] : k \in Bookings}

Mandatory == {"employeeCode", "patientName", "appointmentTime", "doctorCode"}

NoBody ==
    [employeeCode |-> Undefined, patientName |-> Undefined,
     patientAge |-> Undefined, patientGender |-> Undefined,
     patientRelation |-> Undefined, patientPhone |-> Undefined,
     patientAddress |-> Undefined, appointmentDate |-> NoDate,
     appointmentTime |-> Undefined, doctorCode |-> Undefined,
     notes |-> Undefined]

InvalidBodies ==
    {[b EXCEPT ![f] = v] : b \in ValidBodies, f \in Mandatory, v \in {Undefined, Empty}}
        \cup {[b EXCEPT !.appointmentDate = NoDate] : b \in ValidBodies}
        \cup {[b EXCEPT !.doctorCode = Empty, !.patientName = Undefined] : b \in ValidBodies}
        \cup {NoBody}

CreateBodies == ValidBodies \cup InvalidBodies

(* request bodies of PATCH /api/appointments/:id/update *)
UpdateBodies ==
    [status : Statuses \cup {Undefined, Empty},
     medicalReport : Reports \cup {Undefined, Empty}]

(* the empty $set document *)
NoFields == [k \in {} |-> Undefined]

(* ------------------------------- state --------------------------------- *)
VARIABLES
    appointments,   \* the Appointment collection: _id -> document
    nextId,         \* next _id the store hands out
    storeUp,        \* TRUE while awaited store calls resolve
    req,            \* per slot: the request being handled and its position
    started,        \* requests received so far
    deleted         \* history: <<doctorCode, dayStart, tokenNumber>> of every
                    \* document removed by findByIdAndDelete

vars == <<appointments, nextId, storeUp, req, started, deleted>>

IdleSlot ==
    [kind |-> "none", pc |-> "idle", outcome |-> 0, id |-> NullId,
     body |-> NoBody, updateFields |-> NoFields, newTokenNumber |-> 0,
     query |-> <<>>, result |-> <<>>]

(* a finished request keeps its kind, its id and the HTTP status sent *)
Done(kind, id, code) ==
    [kind |-> kind, pc |-> "done", outcome |-> code, id |-> id,
     body |-> NoBody, updateFields |-> NoFields, newTokenNumber |-> 0,
     query |-> <<>>, result |-> <<>>]

Free(r) == req[r].pc \in {"idle", "done"}
InFlight(r) == ~Free(r)
Quiet == \A r \in Slots : Free(r)
(* a request is handled in the first slot that is not busy *)
LowestFree(r) == Free(r) /\ \A q \in Slots : q < r => InFlight(q)

(* the _ids a client may name: the ones handed out so far and one that no
   document has (yet) *)
Nameable(id) == id <= nextId

Init ==
    /\ appointments = <<>>
    /\ nextId = 1
    /\ storeUp = TRUE
    /\ req = [r \in Slots |-> IdleSlot]
    /\ started = 0
    /\ deleted = {}

(* ------------------------- CreateAppointment --------------------------- *)
(* the test without doctorCode *)
MissingRequired_NoDoctor(b) ==
    \/ Falsy(b.employeeCode)
    \/ Falsy(b.patientName)
    \/ b.appointmentDate = NoDate
    \/ Falsy(b.appointmentTime)

(* index.js:194  the mandatory-field test *)
MissingRequired(b) ==
    \/ Falsy(b.employeeCode)
    \/ Falsy(b.patientName)
    \/ b.appointmentDate = NoDate
    \/ Falsy(b.appointmentTime)
    \/ Falsy(b.doctorCode)

(* index.js:198-199  new Date(appointmentDate); setUTCHours(0,0,0,0) *)
DayStart(appointmentDate) == appointmentDate - (appointmentDate % DayLen)

(* index.js:200-201  dayEnd = dayStart + one UTC day *)
DayEnd(dayStart) == dayStart + DayLen

(* the (doctorCode, UTC day) pair a stored document is counted under *)
BucketOf(doc) == <<doc.doctorCode, DayStart(doc.appointmentDate)>>

(* the filter without the doctorCode condition *)
InDay_AnyDoctor(doc, doctorCode, dayStart, dayEnd) ==
    /\ doc.appointmentDate >= dayStart
    /\ doc.appointmentDate < dayEnd

(* index.js:203-206  the filter of the findOne query *)
InDay(doc, doctorCode, dayStart, dayEnd) ==
    /\ doc.doctorCode = doctorCode
    /\ doc.appointmentDate >= dayStart
    /\ doc.appointmentDate < dayEnd

(* the sort ascending: a matching document of least tokenNumber *)
FindLast_Lowest(coll, doctorCode, dayStart, dayEnd) ==
    LET m == {i \in DOMAIN coll : InDay(coll[i], doctorCode, dayStart, dayEnd)}
    IN  IF m = {} THEN NullId
        ELSE CHOOSE i \in m :
                 \A j \in m : coll[i].tokenNumber <= coll[j].tokenNumber

(* index.js:203-208  findOne(filter).sort({tokenNumber: -1}).limit(1):
   the _id of a matching document of greatest tokenNumber, or NullId *)
FindLast(coll, doctorCode, dayStart, dayEnd) ==
    LET m == {i \in DOMAIN coll : InDay(coll[i], doctorCode, dayStart, dayEnd)}
    IN  IF m = {} THEN NullId
        ELSE CHOOSE i \in m :
                 \A j \in m : coll[j].tokenNumber <= coll[i].tokenNumber

(* the least token not stored for the pair: a gap is filled *)
NewTokenNumber_FillGap(coll, lastAppointment) ==
    IF lastAppointment # NullId
    THEN LET used == {coll[i].tokenNumber : i \in
                         {j \in DOMAIN coll :
                             BucketOf(coll[j]) = BucketOf(coll[lastAppointment])}}
         IN  CHOOSE n \in 1..(Cardinality(used) + 1) :
                 /\ n \notin used
                 /\ \A k \in 1..(n - 1) : k \in used
    ELSE 1

(* the result of the query ignored: every appointment is the first *)
NewTokenNumber_AlwaysOne(coll, lastAppointment) == 1

(* the increment forgotten *)
NewTokenNumber_NoIncrement(coll, lastAppointment) ==
    IF lastAppointment # NullId
    THEN coll[lastAppointment].tokenNumber
    ELSE 1

(* index.js:210 *)
NewTokenNumber(coll, lastAppointment) ==
    IF lastAppointment # NullId
    THEN coll[lastAppointment].tokenNumber + 1
    ELSE 1

(* index.js:212-225  new Appointment({...}) with the schema defaults *)
NewAppointment(id, b, token) ==
    [id |-> id,
     employeeCode |-> b.employeeCode,
     patientName |-> b.patientName,
     patientAge |-> b.patientAge,
     patientGender |-> b.patientGender,
     patientRelation |-> b.patientRelation,
     patientAddress |-> b.patientAddress,
     appointmentDate |-> b.appointmentDate,
     appointmentTime |-> b.appointmentTime,
     doctorCode |-> b.doctorCode,
     notes |-> b.notes,
     patientPhone |-> b.patientPhone,
     tokenNumber |-> token,
     status |-> DefaultStatus,
     medicalReport |-> Undefined]

(* the document is written although the call rejects *)
Save_Partial(coll, doc, up) ==
    [i \in DOMAIN coll \cup {doc.id} |->
        IF i = doc.id THEN doc ELSE coll[i]]

(* index.js:227  save(): the collection after the insert resolved or rejected *)
Save(coll, doc, up) ==
    IF up
    THEN [i \in DOMAIN coll \cup {doc.id} |->
             IF i = doc.id THEN doc ELSE coll[i]]
    ELSE coll

CreatesInFlight == Cardinality({r \in Slots : req[r].kind = "create" /\ InFlight(r)})

(* index.js:178-201  the request arrives; validation runs before any await *)
CreateReceive(r, b) ==
    /\ LowestFree(r)
    /\ started' = started + 1
    /\ req' = [req EXCEPT ![r] =
                 IF MissingRequired(b)
                 THEN Done("create", NullId, 400)
                 ELSE [IdleSlot EXCEPT !.kind = "create", !.pc = "findOne",
                                       !.body = b]]
    /\ UNCHANGED <<appointments, nextId, storeUp, deleted>>

(* the arrival, within the bounds of the run *)
CreateBegin(r, b) ==
    /\ started < MaxOps
    /\ nextId + CreatesInFlight <= MaxAppts
    /\ CreateReceive(r, b)

(* index.js:203-210  await findOne(...), then the token is computed *)
CreateFindOne(r) ==
    /\ req[r].kind = "create"
    /\ req[r].pc = "findOne"
    /\ LET b == req[r].body
           dayStart == DayStart(b.appointmentDate)
           dayEnd == DayEnd(dayStart)
           lastAppointment == FindLast(appointments, b.doctorCode, dayStart, dayEnd)
       IN  req' = [req EXCEPT ![r] =
                     IF storeUp
                     THEN [@ EXCEPT !.pc = "save",
                              !.newTokenNumber =
                                  NewTokenNumber(appointments, lastAppointment)]
                     ELSE Done("create", NullId, 500)]
    /\ UNCHANGED <<appointments, nextId, storeUp, started, deleted>>

(* index.js:212-232  await save(), then 201; a rejection answers 500 *)
CreateSave(r) ==
    /\ req[r].kind = "create"
    /\ req[r].pc = "save"
    /\ LET doc == NewAppointment(nextId, req[r].body, req[r].newTokenNumber)
       IN  /\ appointments' = Save(appointments, doc, storeUp)
           /\ nextId' = IF storeUp THEN nextId + 1 ELSE nextId
           /\ req' = [req EXCEPT ![r] =
                        IF storeUp
                        THEN Done("create", nextId, 201)
                        ELSE Done("create", NullId, 500)]
    /\ UNCHANGED <<storeUp, started, deleted>>

(* ------------------------ UpdateStatusOrReport ------------------------- *)
(* the test left out *)
NoUpdateData_Never(u) == FALSE

(* index.js:283  nothing to update *)
NoUpdateData(u) == Falsy(u.status) /\ u.medicalReport = Undefined

(* index.js:287-289  the $set document: only the supplied properties *)
UpdateFields(u) ==
    [k \in (IF Falsy(u.status) THEN {} ELSE {"status"})
              \cup (IF u.medicalReport # Undefined THEN {"medicalReport"} ELSE {})
        |-> u[k]]

(* replacement instead of $set: a status that is not supplied falls back to
   the default *)
ApplySet_ResetStatus(doc, updateFields) ==
    [k \in DOMAIN doc |->
        IF k \in DOMAIN updateFields THEN updateFields[k]
        ELSE IF k = "status" THEN DefaultStatus
        ELSE doc[k]]

(* index.js:291  { $set: updateFields } applied to one document *)
ApplySet(doc, updateFields) ==
    [k \in DOMAIN doc |->
        IF k \in DOMAIN updateFields THEN updateFields[k] ELSE doc[k]]

(* a finished or cancelled appointment is not given another status *)
FindByIdAndUpdate_NoReopen(coll, id, updateFields) ==
    IF id \in DOMAIN coll
    THEN IF /\ "status" \in DOMAIN updateFields
            /\ coll[id].status \in {"Completed", "Cancelled"}
         THEN coll
         ELSE [coll EXCEPT ![id] = ApplySet(@, updateFields)]
    ELSE coll

(* findByIdAndUpdate with upsert: a document is made when none has the _id *)
FindByIdAndUpdate_Upsert(coll, id, updateFields) ==
    IF id \in DOMAIN coll
    THEN [coll EXCEPT ![id] = ApplySet(@, updateFields)]
    ELSE [i \in DOMAIN coll \cup {id} |->
             IF i = id
             THEN ApplySet(NewAppointment(id, NoBody, 0), updateFields)
             ELSE coll[i]]

(* index.js:291  findByIdAndUpdate: the collection after the call *)
FindByIdAndUpdate(coll, id, updateFields) ==
    IF id \in DOMAIN coll
    THEN [coll EXCEPT ![id] = ApplySet(@, updateFields)]
    ELSE coll

(* index.js:278-289  the request arrives; validation and the $set document
   are computed before any await *)
UpdateReceive(r, id, u) ==
    /\ LowestFree(r)
    /\ Nameable(id)
    /\ started' = started + 1
    /\ req' = [req EXCEPT ![r] =
                 IF NoUpdateData(u)
                 THEN Done("update", id, 400)
                 ELSE [IdleSlot EXCEPT !.kind = "update",
                                       !.pc = "findByIdAndUpdate",
                                       !.id = id,
                                       !.updateFields = UpdateFields(u)]]
    /\ UNCHANGED <<appointments, nextId, storeUp, deleted>>

(* the arrival, within the bounds of the run *)
UpdateBegin(r, id, u) ==
    /\ started < MaxOps
    /\ UpdateReceive(r, id, u)

(* index.js:291-299  await findByIdAndUpdate(...), then 404 or 200 *)
UpdateApply(r) ==
    /\ req[r].kind = "update"
    /\ req[r].pc = "findByIdAndUpdate"
    /\ LET id == req[r].id
       IN  IF ~storeUp
           THEN /\ req' = [req EXCEPT ![r] = Done("update", id, 500)]
                /\ UNCHANGED appointments
           ELSE /\ appointments' =
                       FindByIdAndUpdate(appointments, id, req[r].updateFields)
                /\ req' = [req EXCEPT ![r] =
                             IF id \in DOMAIN appointments
                             THEN Done("update", id, 200)
                             ELSE Done("update", id, 404)]
    /\ UNCHANGED <<nextId, storeUp, started, deleted>>

(* -------------------------- DeleteAppointment -------------------------- *)
(* the guard testing the wrong status *)
Deletable_NotPending(doc) == doc.status # "Pending"

(* index.js:312  the delete guard *)
Deletable(doc) == doc.status = "Cancelled"

(* the document is kept *)
FindByIdAndDelete_Keep(coll, id) == coll

(* the document is removed and the later tokens of its day are moved up *)
FindByIdAndDelete_Renumber(coll, id) ==
    [i \in DOMAIN coll \ {id} |->
        IF /\ id \in DOMAIN coll
           /\ BucketOf(coll[i]) = BucketOf(coll[id])
           /\ coll[i].tokenNumber > coll[id].tokenNumber
        THEN [coll[i] EXCEPT !.tokenNumber = @ - 1]
        ELSE coll[i]]

(* index.js:316  findByIdAndDelete: the collection after the call *)
FindByIdAndDelete(coll, id) ==
    [i \in DOMAIN coll \ {id} |-> coll[i]]

(* index.js:305-307  the request arrives *)
DeleteReceive(r, id) ==
    /\ LowestFree(r)
    /\ Nameable(id)
    /\ started' = started + 1
    /\ req' = [req EXCEPT ![r] =
                 [IdleSlot EXCEPT !.kind = "delete", !.pc = "findById",
                                  !.id = id]]
    /\ UNCHANGED <<appointments, nextId, storeUp, deleted>>

(* the arrival, within the bounds of the run *)
DeleteBegin(r, id) ==
    /\ started < MaxOps
    /\ DeleteReceive(r, id)

(* index.js:309-314  await findById(id), then 404, 403 or on to the removal *)
DeleteFindById(r) ==
    /\ req[r].kind = "delete"
    /\ req[r].pc = "findById"
    /\ LET id == req[r].id
       IN  req' = [req EXCEPT ![r] =
                     IF ~storeUp THEN Done("delete", id, 500)
                     ELSE IF id \notin DOMAIN appointments
                          THEN Done("delete", id, 404)
                     ELSE IF ~Deletable(appointments[id])
                          THEN Done("delete", id, 403)
                     ELSE [@ EXCEPT !.pc = "findByIdAndDelete"]]
    /\ UNCHANGED <<appointments, nextId, storeUp, started, deleted>>

(* index.js:316-321  await findByIdAndDelete(id), then 200 *)
DeleteRemove(r) ==
    /\ req[r].kind = "delete"
    /\ req[r].pc = "findByIdAndDelete"
    /\ LET id == req[r].id
       IN  IF ~storeUp
           THEN /\ req' = [req EXCEPT ![r] = Done("delete", id, 500)]
                /\ UNCHANGED <<appointments, deleted>>
           ELSE /\ appointments' = FindByIdAndDelete(appointments, id)
                /\ deleted' = IF id \in DOMAIN appointments
                              THEN deleted \cup {BucketOf(appointments[id])
                                                  \o <<appointments[id].tokenNumber>>}
                              ELSE deleted
                /\ req' = [req EXCEPT ![r] = Done("delete", id, 200)]
    /\ UNCHANGED <<nextId, storeUp, started>>

(* ----------------------------- ListByDoctor --------------------------- *)
(* index.js:266  String(doctorCode).trim() on the codes a client sends *)
Trim(x) ==
    CASE x = " D1 " -> "D1"
      [] x = "D2 " -> "D2"
      [] OTHER -> x

DoctorQueries == {"D1", " D1 ", "D2", "D2 "}

(* the position of an appointmentTime string in the order of strings *)
TimeRank(t) ==
    CASE t = "10:00" -> 2
      [] t = "09:30" -> 1
      [] OTHER -> 0

SortBefore_TokenFirst(a, b) ==
    \/ a.tokenNumber < b.tokenNumber
    \/ a.tokenNumber = b.tokenNumber /\ a.id < b.id

(* index.js:266  sort({appointmentDate: 1, appointmentTime: 1, tokenNumber: 1});
   documents equal on the three keys come in _id order *)
SortBefore(a, b) ==
    \/ a.appointmentDate < b.appointmentDate
    \/ /\ a.appointmentDate = b.appointmentDate
       /\ TimeRank(a.appointmentTime) < TimeRank(b.appointmentTime)
    \/ /\ a.appointmentDate = b.appointmentDate
       /\ TimeRank(a.appointmentTime) = TimeRank(b.appointmentTime)
       /\ a.tokenNumber < b.tokenNumber
    \/ /\ a.appointmentDate = b.appointmentDate
       /\ TimeRank(a.appointmentTime) = TimeRank(b.appointmentTime)
       /\ a.tokenNumber = b.tokenNumber
       /\ a.id < b.id

(* index.js:261-273  find({doctorCode: trimmed}).sort(...): the result list *)
ListByDoctor(coll, doctorCode) ==
    LET m == {i \in DOMAIN coll : coll[i].doctorCode = Trim(doctorCode)}
        pos(i) == Cardinality({j \in m : SortBefore(coll[j], coll[i])}) + 1
    IN  [k \in 1..Cardinality(m) |-> coll[CHOOSE i \in m : pos(i) = k]]

(* index.js:261-266  the request arrives (list requests are not counted) *)
ListDoctorReceive(r, q) ==
    /\ LowestFree(r)
    /\ req' = [req EXCEPT ![r] =
                 IF Falsy(q)
                 THEN Done("listDoctor", NullId, 400)
                 ELSE [IdleSlot EXCEPT !.kind = "listDoctor", !.pc = "find",
                                       !.query = <<q>>]]
    /\ UNCHANGED <<appointments, nextId, storeUp, started, deleted>>

(* index.js:266-272  await find(...).sort(...), then 200 with the list *)
ListDoctorFind(r) ==
    /\ req[r].kind = "listDoctor"
    /\ req[r].pc = "find"
    /\ req' = [req EXCEPT ![r] =
                 IF storeUp
                 THEN [Done("listDoctor", NullId, 200) EXCEPT
                          !.query = req[r].query,
                          !.result = ListByDoctor(appointments, req[r].query[1])]
                 ELSE Done("listDoctor", NullId, 500)]
    /\ UNCHANGED <<appointments, nextId, storeUp, started, deleted>>

(* ----------------------- ListByEmployeeAndPatient ---------------------- *)
(* the characters of the strings that occur as codes, names and queries *)
Chars(x) ==
    CASE x = "John" -> <<"J", "o", "h", "n">>
      [] x = "Johnny" -> <<"J", "o", "h", "n", "n", "y">>
      [] x = "john" -> <<"j", "o", "h", "n">>
      [] x = " JOHN " -> <<" ", "J", "O", "H", "N", " ">>
      [] x = "J.hn" -> <<"J", ".", "h", "n">>
      [] x = "Joh" -> <<"J", "o", "h">>
      [] x = "E1" -> <<"E", "1">>
      [] x = " E1 " -> <<" ", "E", "1", " ">>
      [] x = "E2" -> <<"E", "2">>
      [] x = "e1" -> <<"e", "1">>
      [] x = "D1" -> <<"D", "1">>
      [] x = " D1 " -> <<" ", "D", "1", " ">>
      [] x = "D2" -> <<"D", "2">>
      [] x = "D2 " -> <<"D", "2", " ">>
      [] OTHER -> <<>>

(* String.prototype.trim on a sequence of characters *)
RECURSIVE TrimLeft(_)
TrimLeft(cs) ==
    IF cs # <<>> /\ Head(cs) = " " THEN TrimLeft(Tail(cs)) ELSE cs

RECURSIVE TrimRight(_)
TrimRight(cs) ==
    IF cs # <<>> /\ cs[Len(cs)] = " "
    THEN TrimRight(SubSeq(cs, 1, Len(cs) - 1))
    ELSE cs

TrimChars(cs) == TrimRight(TrimLeft(cs))

(* the lower-case form of a character (the "i" flag compares these) *)
Lower(c) ==
    CASE c = "J" -> "j"
      [] c = "O" -> "o"
      [] c = "H" -> "h"
      [] c = "N" -> "n"
      [] c = "Y" -> "y"
      [] c = "E" -> "e"
      [] c = "D" -> "d"
      [] OTHER -> c

(* index.js:248  new RegExp(`^${pattern}$`, "i").test(cs): the pattern text is
   used as it comes, so "." stands for any character *)
RECURSIVE RegExpTest(_, _)
RegExpTest(pattern, cs) ==
    IF pattern = <<>> THEN cs = <<>>
    ELSE /\ cs # <<>>
         /\ \/ Head(pattern) = "."
            \/ Lower(Head(pattern)) = Lower(Head(cs))
         /\ RegExpTest(Tail(pattern), Tail(cs))

EmployeeQueries == {"E1", " E1 ", "e1"}
PatientQueries == {"john", " JOHN ", "Johnny", "J.hn", "Joh", Undefined}

(* index.js:246-249  find({employeeCode: trimmed, patientName: /^trimmed$/i})
   .sort(...): the result list *)
ListByEmployeeAndPatient(coll, employeeCode, patientName) ==
    LET m == {i \in DOMAIN coll :
                 /\ Chars(coll[i].employeeCode) = TrimChars(Chars(employeeCode))
                 /\ RegExpTest(TrimChars(Chars(patientName)),
                               Chars(coll[i].patientName))}
        pos(i) == Cardinality({j \in m : SortBefore(coll[j], coll[i])}) + 1
    IN  [k \in 1..Cardinality(m) |-> coll[CHOOSE i \in m : pos(i) = k]]

(* index.js:238-244  the request arrives (list requests are not counted) *)
ListPatientReceive(r, e, n) ==
    /\ LowestFree(r)
    /\ req' = [req EXCEPT ![r] =
                 IF Falsy(e) \/ Falsy(n)
                 THEN Done("listPatient", NullId, 400)
                 ELSE [IdleSlot EXCEPT !.kind = "listPatient", !.pc = "find",
                                       !.query = <<e, n>>]]
    /\ UNCHANGED <<appointments, nextId, storeUp, started, deleted>>

(* index.js:246-255  await find(...).sort(...), then 200 with the list *)
ListPatientFind(r) ==
    /\ req[r].kind = "listPatient"
    /\ req[r].pc = "find"
    /\ req' = [req EXCEPT ![r] =
                 IF storeUp
                 THEN [Done("listPatient", NullId, 200) EXCEPT
                          !.query = req[r].query,
                          !.result = ListByEmployeeAndPatient(
                                         appointments, req[r].query[1],
                                         req[r].query[2])]
                 ELSE Done("listPatient", NullId, 500)]
    /\ UNCHANGED <<appointments, nextId, storeUp, started, deleted>>

(* ------------------------------ the store ------------------------------ *)
(* index.js:26-40  the connection to the store is lost: awaited calls reject *)
StoreDown ==
    /\ storeUp
    /\ storeUp' = FALSE
    /\ UNCHANGED <<appointments, nextId, req, started, deleted>>

(* index.js:26-40  the connection is back *)
StoreBack ==
    /\ ~storeUp
    /\ storeUp' = TRUE
    /\ UNCHANGED <<appointments, nextId, req, started, deleted>>

(* --------------------------- specifications ---------------------------- *)
(* requests are handled concurrently, NumSlots at a time; the store answers
   every call *)
Next ==
    \/ \E r \in Slots, b \in CreateBodies : CreateBegin(r, b)
    \/ \E r \in Slots : CreateFindOne(r)
    \/ \E r \in Slots : CreateSave(r)
    \/ \E r \in Slots, id \in Ids, u \in UpdateBodies : UpdateBegin(r, id, u)
    \/ \E r \in Slots : UpdateApply(r)
    \/ \E r \in Slots, id \in Ids : DeleteBegin(r, id)
    \/ \E r \in Slots : DeleteFindById(r)
    \/ \E r \in Slots : DeleteRemove(r)

Spec == Init /\ [][Next]_vars

(* one request at a time: a request is received only when none is in flight;
   the store may become unreachable at any moment *)
SerialCreateBegin(r, b) == Quiet /\ CreateBegin(r, b)
SerialUpdateBegin(r, id, u) == Quiet /\ UpdateBegin(r, id, u)
SerialDeleteBegin(r, id) == Quiet /\ DeleteBegin(r, id)

SerialNext ==
    \/ \E r \in Slots, b \in CreateBodies : SerialCreateBegin(r, b)
    \/ \E r \in Slots : CreateFindOne(r)
    \/ \E r \in Slots : CreateSave(r)
    \/ \E r \in Slots, id \in Ids, u \in UpdateBodies : SerialUpdateBegin(r, id, u)
    \/ \E r \in Slots : UpdateApply(r)
    \/ \E r \in Slots, id \in Ids : SerialDeleteBegin(r, id)
    \/ \E r \in Slots : DeleteFindById(r)
    \/ \E r \in Slots : DeleteRemove(r)
    \/ StoreDown
    \/ StoreBack

SpecSerial == Init /\ [][SerialNext]_vars

(* a booking day: one request at a time against a store that answers; the
   bookings differ in doctor, instant, time of day, patient and employee; the
   updates are cancellations; the two list requests are answered as well *)
DayBookings ==
    {<<"D1", 2, "10:00", "John", "E1">>,
     <<"D1", 3, "09:30", "Johnny", "E1">>,
     <<"D1", 2, "09:30", "John", "E2">>,
     <<"D2", 2, "10:00", "John", "E1">>}

DayBodies ==
    {[(CHOOSE v \in ValidBodies :
          v.doctorCode = k[1] /\ v.appointmentDate = k[2])
         EXCEPT !.appointmentTime = k[3], !.patientName = k[4],
                !.employeeCode = k[5]] : k \in DayBookings}

DayIds == 1..MaxDayAppts

Cancellation == [status |-> "Cancelled", medicalReport |-> Undefined]

DayCreateBegin(r, b) ==
    /\ Quiet
    /\ started < MaxDayOps
    /\ nextId <= MaxDayAppts
    /\ CreateReceive(r, b)

DayUpdateBegin(r, id) ==
    /\ Quiet
    /\ started < MaxDayOps
    /\ UpdateReceive(r, id, Cancellation)

DayDeleteBegin(r, id) ==
    /\ Quiet
    /\ started < MaxDayOps
    /\ DeleteReceive(r, id)

DayListDoctorBegin(r, q) == Quiet /\ ListDoctorReceive(r, q)

DayListPatientBegin(r, e, n) == Quiet /\ ListPatientReceive(r, e, n)

DayNext ==
    \/ \E r \in Slots, b \in DayBodies : DayCreateBegin(r, b)
    \/ \E r \in Slots : CreateFindOne(r)
    \/ \E r \in Slots : CreateSave(r)
    \/ \E r \in Slots, id \in DayIds : DayUpdateBegin(r, id)
    \/ \E r \in Slots : UpdateApply(r)
    \/ \E r \in Slots, id \in DayIds : DayDeleteBegin(r, id)
    \/ \E r \in Slots : DeleteFindById(r)
    \/ \E r \in Slots : DeleteRemove(r)
    \/ \E r \in Slots, q \in DoctorQueries : DayListDoctorBegin(r, q)
    \/ \E r \in Slots : ListDoctorFind(r)
    \/ \E r \in Slots, e \in EmployeeQueries, n \in PatientQueries :
          DayListPatientBegin(r, e, n)
    \/ \E r \in Slots : ListPatientFind(r)

SpecDay == Init /\ [][DayNext]_vars

(* ------------------------- notions used by the claims ------------------ *)
(* the (doctorCode, UTC day) pairs that have a stored appointment *)
Buckets == {BucketOf(appointments[i]) : i \in DOMAIN appointments}
IdsIn(bk) == {i \in DOMAIN appointments : BucketOf(appointments[i]) = bk}
TokensIn(bk) == {appointments[i].tokenNumber : i \in IdsIn(bk)}
(* the pairs an appointment was removed from, and the tokens removed *)
DeletedBuckets == {<<x[1], x[2]>> : x \in deleted}
DeletedTokens(bk) == {x[3] : x \in {y \in deleted : <<y[1], y[2]>> = bk}}
(* the tokens of the pair are 1..N, N the number of its appointments *)
Dense(bk) == TokensIn(bk) = 1..Cardinality(IdsIn(bk))
(* the _ids that were handed out and whose document is gone *)
RemovedIds == {i \in 1..(nextId - 1) : i \notin DOMAIN appointments}
(* the documents a step inserts *)
Inserted == {appointments'[i] : i \in DOMAIN appointments' \ DOMAIN appointments}
(* slot r takes a step *)
Steps(r) == req'[r] # req[r]

(* C1: once all concurrent CreateAppointment requests have completed (and no
   appointment was ever deleted), the tokens of every (doctorCode, UTC day)
   pair are exactly 1..N: no duplicate, no gap, whatever the interleaving. *)
C1_ConcurrentCreatesDense ==
    (Quiet /\ deleted = {}) => \A bk \in Buckets : Dense(bk)

(* C2: under any interleaving of delete and update requests, a document is
   removed from the collection only while its stored status is "Cancelled". *)
C2_RemovedOnlyWhenCancelled ==
    [][\A i \in DOMAIN appointments :
          i \notin DOMAIN appointments' => appointments[i].status = "Cancelled"]_vars

(* C3 as stated: in every state of a serial execution the tokens of every
   (doctorCode, UTC day) pair are the dense set 1..N. *)
C3_SerialDense == \A bk \in Buckets : Dense(bk)

(* C3 amended: in every state of a serial execution, the tokens of every
   (doctorCode, UTC day) pair from which no appointment has been deleted are
   the dense set 1..N. *)
C3_SerialDenseUntilDelete ==
    \A bk \in Buckets : bk \notin DeletedBuckets => Dense(bk)

C3_Witness ==
    /\ Quiet
    /\ \E bk \in Buckets : bk \notin DeletedBuckets /\ TokensIn(bk) = {1, 2}
    /\ \E i \in DOMAIN appointments : appointments[i].status = "Cancelled"

(* C4: in a serial execution the token of a newly stored appointment is what
   the token computation yields on the appointments of its own (doctorCode,
   UTC day) pair alone, and it is 1 when that pair has none, whatever is
   stored for other doctors and other days. *)
C4_TokenPerDoctorAndDay ==
    [][\A d \in Inserted :
          LET own == [i \in IdsIn(BucketOf(d)) |-> appointments[i]]
              dayStart == DayStart(d.appointmentDate)
              last == FindLast(own, d.doctorCode, dayStart, DayEnd(dayStart))
          IN  /\ d.tokenNumber = NewTokenNumber(own, last)
              /\ IdsIn(BucketOf(d)) = {} => d.tokenNumber = 1]_vars

C4_Witness ==
    \E i, j \in DOMAIN appointments :
        /\ i < j
        /\ BucketOf(appointments[i]) # BucketOf(appointments[j])
        /\ appointments[i].tokenNumber = 1
        /\ appointments[j].tokenNumber = 1

(* C5: a serial DeleteAppointment on an existing appointment whose status is
   not "Cancelled" ends at the guard: the answer is 403 (500 only if the
   store rejected the read) and the collection is unchanged. *)
C5_DeleteForbidden ==
    [][\A r \in Slots :
          (/\ Steps(r)
           /\ req[r].kind = "delete"
           /\ req[r].pc = "findById"
           /\ req[r].id \in DOMAIN appointments
           /\ appointments[req[r].id].status # "Cancelled")
          => /\ appointments' = appointments
             /\ req'[r].pc = "done"
             /\ req'[r].outcome = (IF storeUp THEN 403 ELSE 500)]_vars

C5_Witness ==
    \E r \in Slots :
        /\ req[r].kind = "delete"
        /\ req[r].pc = "done"
        /\ req[r].outcome = 403
        /\ req[r].id \in DOMAIN appointments
        /\ appointments[req[r].id].status \in {"Pending", "Confirmed", "Completed"}

(* C6: in a serial execution, DeleteAppointment on an existing appointment
   whose status is "Cancelled" goes on to the removal, answers 200 and removes
   exactly that document, every other document staying as it is; every later
   update or delete request for that _id that reaches the store answers 404
   (500 only if the store rejects the call); the _id never comes back into the
   collection nor into a ListByDoctor result. *)
C6_DeleteCancelled ==
    [][/\ \A r \in Slots : Steps(r) =>
            /\ (/\ req[r].kind = "delete"
                /\ req[r].pc = "findById"
                /\ storeUp
                /\ req[r].id \in DOMAIN appointments
                /\ appointments[req[r].id].status = "Cancelled")
               => /\ req'[r].pc = "findByIdAndDelete"
                  /\ appointments' = appointments
            /\ (/\ req[r].kind = "delete"
                /\ req[r].pc = "findByIdAndDelete"
                /\ storeUp)
               => /\ req[r].id \in DOMAIN appointments
                  /\ req'[r].pc = "done"
                  /\ req'[r].outcome = 200
                  /\ DOMAIN appointments' = DOMAIN appointments \ {req[r].id}
                  /\ \A j \in DOMAIN appointments' : appointments'[j] = appointments[j]
            /\ (/\ req[r].pc \in {"findById", "findByIdAndUpdate"}
                /\ req[r].id \in RemovedIds)
               => /\ req'[r].pc = "done"
                  /\ req'[r].outcome = (IF storeUp THEN 404 ELSE 500)
                  /\ appointments' = appointments
       /\ \A i \in RemovedIds :
            /\ i \notin DOMAIN appointments'
            /\ \A q \in DoctorQueries :
                 \A k \in DOMAIN ListByDoctor(appointments', q) :
                     ListByDoctor(appointments', q)[k].id # i]_vars

C6_Witness ==
    \E r \in Slots :
        /\ req[r].pc = "done"
        /\ req[r].outcome = 404
        /\ req[r].id \in RemovedIds
        /\ deleted # {}

(* C7: an update request changes nothing when it arrives; the $set document
   it builds holds status only if a non-empty status was supplied and
   medicalReport only if one was supplied, with the supplied values; its
   findByIdAndUpdate changes no field outside that $set document, in the
   document of its _id only, and adds or removes no document. *)
C7_UpdateFrame ==
    [][\A r \in Slots :
          /\ (Steps(r) /\ Free(r) /\ req'[r].kind = "update") =>
              \A id \in Ids, u \in UpdateBodies :
                UpdateBegin(r, id, u) =>
                    /\ appointments' = appointments
                    /\ DOMAIN req'[r].updateFields \subseteq {"status", "medicalReport"}
                    /\ "status" \in DOMAIN req'[r].updateFields =>
                          /\ u.status \notin {Undefined, Empty}
                          /\ req'[r].updateFields["status"] = u.status
                    /\ "medicalReport" \in DOMAIN req'[r].updateFields =>
                          /\ u.medicalReport # Undefined
                          /\ req'[r].updateFields["medicalReport"] = u.medicalReport
          /\ (Steps(r) /\ req[r].kind = "update" /\ req[r].pc = "findByIdAndUpdate") =>
                /\ DOMAIN appointments' = DOMAIN appointments
                /\ \A i \in DOMAIN appointments :
                      /\ i # req[r].id => appointments'[i] = appointments[i]
                      /\ DOMAIN appointments'[i] = DOMAIN appointments[i]
                      /\ \A f \in DOMAIN appointments[i] :
                            appointments'[i][f] # appointments[i][f]
                                => f \in DOMAIN req[r].updateFields]_vars

C7_Witness ==
    \E r \in Slots :
        /\ req[r].kind = "update"
        /\ req[r].pc = "done"
        /\ req[r].outcome = 200
        /\ req[r].id \in DOMAIN appointments
        /\ appointments[req[r].id].medicalReport = "R1"
        /\ appointments[req[r].id].status = DefaultStatus
        /\ appointments[req[r].id].tokenNumber = 2

(* a create body in which a mandatory property is absent or empty *)
LacksMandatory(b) ==
    \/ b.employeeCode \in {Undefined, Empty}
    \/ b.patientName \in {Undefined, Empty}
    \/ b.appointmentDate = NoDate
    \/ b.appointmentTime \in {Undefined, Empty}
    \/ b.doctorCode \in {Undefined, Empty}

(* C8: a create request lacking a mandatory property is answered 400 in the
   step in which it arrives, whether or not the store is reachable: it never
   gets to a store call, and the collection and the _id counter (hence every
   later token) are as before. *)
C8_RejectedBeforeStore ==
    [][\A r \in Slots : (Steps(r) /\ Free(r)) => \A b \in CreateBodies :
          (CreateBegin(r, b) /\ LacksMandatory(b)) =>
              /\ req'[r] = Done("create", NullId, 400)
              /\ appointments' = appointments
              /\ nextId' = nextId]_vars

C8_Witness ==
    \E r \in Slots :
        /\ req[r] = Done("create", NullId, 400)
        /\ ~storeUp
        /\ appointments # <<>>

(* C9: under any interleaving, a stored appointment keeps the tokenNumber it
   has for as long as it is stored, and a new document always gets a fresh
   _id: no request renumbers the appointments that remain. *)
C9_TokenImmutable ==
    [][/\ \A i \in DOMAIN appointments \cap DOMAIN appointments' :
             appointments'[i].tokenNumber = appointments[i].tokenNumber
       /\ \A i \in DOMAIN appointments' \ DOMAIN appointments :
             i = nextId /\ nextId' = nextId + 1]_vars

C9_Witness ==
    \E bk \in DeletedBuckets : TokensIn(bk) = {2} /\ DeletedTokens(bk) = {1}

(* C10: every step of a create request either leaves the collection as it is
   and does not answer 201, or is the final step answering 201 that adds
   exactly one document, with a positive token, and changes no other; a
   finished create request has answered 201, 400 or 500. *)
C10_CreateAllOrNothing ==
    [][\A r \in Slots : (Steps(r) /\ req'[r].kind = "create") =>
          /\ \/ /\ appointments' = appointments
                /\ req'[r].outcome # 201
             \/ /\ req'[r].pc = "done"
                /\ req'[r].outcome = 201
                /\ Cardinality(Inserted) = 1
                /\ \A d \in Inserted : d.tokenNumber \in Nat \ {0}
                /\ \A i \in DOMAIN appointments :
                      /\ i \in DOMAIN appointments'
                      /\ appointments'[i] = appointments[i]
          /\ req'[r].pc = "done" => req'[r].outcome \in {201, 400, 500}]_vars

C10_Witness ==
    \E r \in Slots :
        /\ req[r] = Done("create", NullId, 500)
        /\ DOMAIN appointments = {1}
        /\ nextId = 2

(* C13: in a serial execution, an update whose _id has no document answers
   404 (not 500) and leaves the collection as it is; an update request with
   neither status nor medicalReport is answered 400 in the step in which it
   arrives, whether or not the store is reachable. *)
C13_NotFoundAndEmptyUpdate ==
    [][\A r \in Slots : Steps(r) =>
          /\ (/\ req[r].kind = "update"
              /\ req[r].pc = "findByIdAndUpdate"
              /\ storeUp
              /\ req[r].id \notin DOMAIN appointments)
             => /\ req'[r] = Done("update", req[r].id, 404)
                /\ appointments' = appointments
          /\ (Free(r) /\ req'[r].kind = "update") =>
                \A id \in Ids, u \in UpdateBodies :
                    (/\ UpdateBegin(r, id, u)
                     /\ u.status = Undefined
                     /\ u.medicalReport = Undefined)
                    => /\ req'[r] = Done("update", id, 400)
                       /\ appointments' = appointments]_vars

C13_Witness ==
    \E r \in Slots :
        /\ req[r].kind = "update"
        /\ req[r].pc = "done"
        /\ req[r].outcome = 404
        /\ req[r].id \notin DOMAIN appointments
        /\ appointments # <<>>

(* C15: in a serial execution, an update request carrying any of the four
   status values is accepted, and its findByIdAndUpdate on an existing
   appointment answers 200 and stores that status whatever the status was;
   a delete of an appointment found "Cancelled" goes on to remove it. *)
C15_AnyStatusToAny ==
    [][\A r \in Slots : Steps(r) =>
          /\ (Free(r) /\ req'[r].kind = "update") =>
                \A id \in Ids, u \in UpdateBodies :
                    (UpdateBegin(r, id, u) /\ u.status \in Statuses)
                    => /\ req'[r].pc = "findByIdAndUpdate"
                       /\ req'[r].updateFields["status"] = u.status
          /\ (/\ req[r].kind = "update"
              /\ req[r].pc = "findByIdAndUpdate"
              /\ storeUp
              /\ req[r].id \in DOMAIN appointments
              /\ "status" \in DOMAIN req[r].updateFields)
             => /\ req'[r] = Done("update", req[r].id, 200)
                /\ req[r].id \in DOMAIN appointments'
                /\ appointments'[req[r].id].status = req[r].updateFields["status"]
          /\ (/\ req[r].kind = "delete"
              /\ req[r].pc = "findById"
              /\ storeUp
              /\ req[r].id \in DOMAIN appointments
              /\ appointments[req[r].id].status = "Cancelled")
             => req'[r].pc = "findByIdAndDelete"
          /\ (/\ req[r].kind = "delete"
              /\ req[r].pc = "findByIdAndDelete"
              /\ storeUp)
             => /\ req[r].id \notin DOMAIN appointments'
                /\ req'[r].outcome = 200]_vars

(* an appointment created Pending was set to Cancelled and then removed *)
C15_Witness ==
    \E r \in Slots :
        /\ req[r] = Done("delete", req[r].id, 200)
        /\ req[r].id \in RemovedIds
        /\ appointments # <<>>

(* C18: under any interleaving, no two delete requests for the same _id are
   both answered 200. *)
C18_OneDeleteSucceeds ==
    \A r1, r2 \in Slots :
        (/\ r1 # r2
         /\ req[r1] = Done("delete", req[r1].id, 200)
         /\ req[r2] = Done("delete", req[r2].id, 200))
        => req[r1].id # req[r2].id

(* C19: under any interleaving, the findByIdAndUpdate of an update request
   answers 200 exactly when a document with the _id is stored at that step;
   otherwise it answers 404 and changes nothing; an _id whose document is
   gone never comes back into the collection. *)
C19_UpdateNeverRecreates ==
    [][/\ \A r \in Slots :
            (Steps(r) /\ req[r].kind = "update" /\ req[r].pc = "findByIdAndUpdate"
                /\ storeUp)
            => /\ req'[r].outcome = 200 <=> req[r].id \in DOMAIN appointments
               /\ req[r].id \notin DOMAIN appointments
                     => /\ req'[r].outcome = 404
                        /\ appointments' = appointments
       /\ \A i \in RemovedIds : i \notin DOMAIN appointments']_vars

C19_Witness ==
    \E r1, r2 \in Slots :
        /\ req[r1].kind = "delete" /\ req[r1].pc = "done" /\ req[r1].outcome = 200
        /\ req[r2].kind = "update" /\ req[r2].pc = "done" /\ req[r2].outcome = 404
        /\ req[r1].id = req[r2].id
        /\ req[r1].id \in RemovedIds

(* C17 as stated: in a serial execution every token issued for a (doctorCode,
   UTC day) pair is greater than every token issued for the pair before,
   those of appointments deleted since included. *)
C17_NeverReissued ==
    [][\A d \in Inserted :
          \A t \in TokensIn(BucketOf(d)) \cup DeletedTokens(BucketOf(d)) :
              d.tokenNumber > t]_vars

(* C17 amended: in a serial execution every token issued for a (doctorCode,
   UTC day) pair is greater than the token of every appointment stored for
   the pair at that moment. *)
C17_AboveStored ==
    [][\A d \in Inserted :
          \A t \in TokensIn(BucketOf(d)) : d.tokenNumber > t]_vars

(* the appointment holding the highest token of a pair was removed and a later
   appointment of the pair holds that token again *)
C17_Witness ==
    \E j \in DOMAIN appointments :
        /\ appointments[j].tokenNumber \in DeletedTokens(BucketOf(appointments[j]))
        /\ \A t \in DeletedTokens(BucketOf(appointments[j])) :
               t <= appointments[j].tokenNumber
(* a precedes or ties b on (appointmentDate, appointmentTime, tokenNumber) *)
KeyLeq(a, b) ==
    \/ a.appointmentDate < b.appointmentDate
    \/ /\ a.appointmentDate = b.appointmentDate
       /\ \/ TimeRank(a.appointmentTime) < TimeRank(b.appointmentTime)
          \/ /\ a.appointmentTime = b.appointmentTime
             /\ a.tokenNumber <= b.tokenNumber
(* the elements of a list *)
Range(s) == {s[k] : k \in DOMAIN s}
(* slot r answers a list request of the kind in this step *)
Answers(r, kind) == Steps(r) /\ req[r].kind = kind /\ req[r].pc = "find"

(* C11: ListByDoctor(doctorCode) answers 200 with exactly the stored
   appointments whose doctorCode is, character for character, the argument
   without its leading and trailing blanks, each once, in ascending order of
   (appointmentDate, appointmentTime, tokenNumber); after three bookings of one
   doctor on one day and the removal of the second, the list is the
   appointments with tokens 1 and 3 in that order. *)
C11_ListByDoctor ==
    [][\A r \in Slots :
          Answers(r, "listDoctor") =>
              LET res == req'[r].result
                  q == req[r].query[1]
                  want == {appointments[i] : i \in
                              {j \in DOMAIN appointments :
                                  Chars(appointments[j].doctorCode)
                                      = TrimChars(Chars(q))}}
              IN  /\ req'[r].outcome = 200
                  /\ Range(res) = want
                  /\ Len(res) = Cardinality(want)
                  /\ \A j, k \in DOMAIN res :
                         j < k => KeyLeq(res[j], res[k])]_vars

C11_Witness ==
    \E r \in Slots :
        /\ req[r].kind = "listDoctor"
        /\ req[r].outcome = 200
        /\ req[r].query = <<" D1 ">>
        /\ Len(req[r].result) = 2
        /\ req[r].result[1].tokenNumber = 1
        /\ req[r].result[2].tokenNumber = 3
        /\ BucketOf(req[r].result[1]) = BucketOf(req[r].result[2])
        /\ DeletedTokens(BucketOf(req[r].result[1])) = {2}

(* a string of characters with every letter in lower case *)
LowerAll(cs) == [k \in DOMAIN cs |-> Lower(cs[k])]

(* C12: ListByEmployeeAndPatient(employeeCode, patientName) returns an
   appointment if and only if its employeeCode is the trimmed employeeCode
   argument and its patientName, letter case ignored, is the whole trimmed
   patientName argument, for every query string, pattern metacharacters
   included. *)
C12_ExactNameMatch ==
    [][\A r \in Slots :
          Answers(r, "listPatient") =>
              Range(req'[r].result) =
                  {appointments[i] : i \in
                      {j \in DOMAIN appointments :
                          /\ Chars(appointments[j].employeeCode)
                                 = TrimChars(Chars(req[r].query[1]))
                          /\ LowerAll(Chars(appointments[j].patientName))
                                 = LowerAll(TrimChars(Chars(req[r].query[2])))}}]_vars

(* the greatest number of a non-empty set *)
MaxOf(S) == CHOOSE x \in S : \A y \in S : y <= x

(* C14: in a serial execution a successful CreateAppointment stores the token
   1 + the greatest token stored for its (doctorCode, UTC day) pair, or 1 when
   the pair has none; it is never the token of a deleted appointment below a
   stored one, and the new record has the initial default status. *)
C14_OnePlusMaxStored ==
    [][\A d \in Inserted :
          LET stored == TokensIn(BucketOf(d))
          IN  /\ d.tokenNumber = IF stored = {} THEN 1 ELSE 1 + MaxOf(stored)
              /\ \A t \in DeletedTokens(BucketOf(d)) :
                     (\E u \in stored : t < u) => d.tokenNumber # t
              /\ d.status = DefaultStatus]_vars

C14_Witness ==
    \E r \in Slots, bk \in Buckets :
        /\ req[r].kind = "create"
        /\ req[r].outcome = 201
        /\ BucketOf(appointments[req[r].id]) = bk
        /\ appointments[req[r].id].tokenNumber = 3
        /\ TokensIn(bk) = {2, 3}
        /\ 1 \in DeletedTokens(bk)

(* C16: in every state of a serial execution of creations, updates and
   deletions, two different stored appointments of one doctorCode and one UTC
   day have different tokens, gaps left by deletions included. *)
C16_SerialTokensUnique ==
    \A i, j \in DOMAIN appointments :
        (i # j /\ BucketOf(appointments[i]) = BucketOf(appointments[j]))
            => appointments[i].tokenNumber # appointments[j].tokenNumber

C16_Witness ==
    \E i, j \in DOMAIN appointments :
        /\ i < j
        /\ BucketOf(appointments[i]) = BucketOf(appointments[j])
        /\ \E t \in DeletedTokens(BucketOf(appointments[i])) :
               /\ appointments[i].tokenNumber < t
               /\ t < appointments[j].tokenNumber

====
